---- MODULE Spec2Model ----
(***************************************************************************)
(* Model of zabbix_module.py: the item registry (__items, __routes,        *)
(* __modules), register_item, route, the provider loader                   *)
(* (register_module, register_module_items) and the initialization entry   *)
(* point zbx_module_init.                                                  *)
(*                                                                         *)
(* Python values are modelled as follows.  A handler (a callable) is named *)
(* by a string; what it does when called is given by Call.  An exception   *)
(* is a pair (exc, detail): its class name and its message, the message a  *)
(* sequence of strings standing for their concatenation.  The outcome of   *)
(* an operation is a record saying whether it returned or raised, with     *)
(* which value or exception, and which handler it invoked.                 *)
(***************************************************************************)
EXTENDS Integers, Sequences, FiniteSets, TLC

(***************************************************************************)
(* items     __items, the registered AgentItems in registration order      *)
(* routes    __routes, the key -> handler dictionary                       *)
(* modules   __modules, the provider modules passed to register_module     *)
(* packages  the package directories glob finds under zabbix_module_path   *)
(* pyfiles   the *.py files glob finds under zabbix_module_path            *)
(* initRuns  the number of entries zbx_module_init has inserted into       *)
(*           sys.path, one per call of it                                  *)
(* result    the last operation called and how it ended                    *)
(* zabbix_runtime  whether the import of zabbix_runtime succeeded (the     *)
(*           module runs embedded and has the host's log sink)             *)
(* streams   what log has written so far: the calls of zabbix_runtime.log, *)
(*           the lines on standard output, the lines on standard error     *)
(* call      the last call of one of the functions that do not touch the   *)
(*           registry (log, AgentItem, macro_name, discovery): its         *)
(*           arguments and its outcome                                     *)
(***************************************************************************)
VARIABLES items, routes, modules, packages, pyfiles, initRuns, result,
          zabbix_runtime, streams, call

vars == <<items, routes, modules, packages, pyfiles, initRuns, result,
          zabbix_runtime, streams, call>>

(***************************************************************************)
(* Bounds of the model.                                                    *)
(***************************************************************************)
MaxItems == 3
MaxModules == 2
MaxInit == 2
MaxWrites == 3
MaxLen == 4
MaxRecords == 2
MaxRegistered == 1

\* log levels from log.h
LOG_LEVEL_CRIT == 1
LOG_LEVEL_ERR == 2
LOG_LEVEL_WARNING == 3
LOG_LEVEL_DEBUG == 4
LOG_LEVEL_TRACE == 5
LOG_LEVEL_INFORMATION == 127

(***************************************************************************)
(* Python's None, and the absence of a handler call.                       *)
(***************************************************************************)
None == "None"

(***************************************************************************)
(* Python values handed to AgentRequest as parameters, to AgentItem as     *)
(* test_param and to discovery: a string (its characters in s), an integer *)
(* (n), None, a list or a tuple (its elements in e).                       *)
(***************************************************************************)
PyVal(t, str, n, e) == [t |-> t, s |-> str, n |-> n, e |-> e]

PyStr(str) == PyVal("str", str, 0, <<>>)

PyInt(n) == PyVal("int", <<>>, n, <<>>)

PyNone == PyVal("none", <<>>, 0, <<>>)

PyList(e) == PyVal("list", <<>>, 0, e)

PyTuple(e) == PyVal("tuple", <<>>, 0, e)

\* bool(v), as "if v:" evaluates it.
Truthy(v) ==
  CASE v.t = "str"  -> v.s # <<>>
    [] v.t = "int"  -> v.n # 0
    [] v.t = "none" -> FALSE
    [] OTHER        -> v.e # <<>>

DigitChars == <<"0", "1", "2", "3", "4", "5", "6", "7", "8", "9">>

\* str(n) for an integer n >= 0.
RECURSIVE IntStr(_)
IntStr(n) ==
  IF n < 10 THEN <<DigitChars[n + 1]>>
  ELSE IntStr(n \div 10) \o <<DigitChars[(n % 10) + 1]>>

\* ", ".join(parts) and ",".join(parts): the parts with sep between them.
RECURSIVE Join(_, _)
Join(parts, sep) ==
  IF parts = <<>> THEN <<>>
  ELSE IF Len(parts) = 1 THEN Head(parts)
  ELSE Head(parts) \o sep \o Join(Tail(parts), sep)

\* str(v) of a string, an integer or None; repr(v) of one inside a container.
ScalarStr(v) ==
  CASE v.t = "str"  -> v.s
    [] v.t = "int"  -> IF v.n < 0 THEN <<"-">> \o IntStr(0 - v.n) ELSE IntStr(v.n)
    [] OTHER        -> <<"N", "o", "n", "e">>

ScalarRepr(v) == IF v.t = "str" THEN <<"'">> \o v.s \o <<"'">> ELSE ScalarStr(v)

\* str(v): a list prints as [a, b], a tuple as (a, b), a tuple of one as (a,).
PyToStr(v) ==
  CASE v.t = "list"  ->
         <<"[">> \o Join([i \in 1..Len(v.e) |-> ScalarRepr(v.e[i])], <<",", " ">>) \o <<"]">>
    [] v.t = "tuple" ->
         <<"(">> \o Join([i \in 1..Len(v.e) |-> ScalarRepr(v.e[i])], <<",", " ">>)
           \o (IF Len(v.e) = 1 THEN <<",">> ELSE <<>>) \o <<")">>
    [] OTHER         -> ScalarStr(v)

\* __name__ of the loader module itself.
SelfName == "zabbix_module"

\* sys.version_info[:4] of the interpreter that runs the module.
version_info == [major |-> 3, minor |-> 11, micro |-> 7, releaselevel |-> "final"]

\* "%i" % n for an integer n >= 0.
RECURSIVE FormatInt(_)
FormatInt(n) ==
  IF n < 10 THEN DigitChars[n + 1]
  ELSE FormatInt(n \div 10) \o DigitChars[(n % 10) + 1]

\* __python_version_string, the value the built-in handler returns.
PythonVersionString ==
  "Python " \o FormatInt(version_info.major) \o "." \o FormatInt(version_info.minor)
    \o "." \o FormatInt(version_info.micro) \o "-" \o version_info.releaselevel

(***************************************************************************)
(* log(lvl, msg).  A message is a sequence of strings standing for their   *)
(* concatenation; print(msg) and sys.stderr.write(msg + "\n") both write   *)
(* the message followed by a newline.                                      *)
(***************************************************************************)
NoStreams == [sink |-> <<>>, stdout |-> <<>>, stderr |-> <<>>]

\* A log that compares the level with < instead of <=.
log_below_warning(st, lvl, msg) ==
  IF zabbix_runtime
    THEN [st EXCEPT !.sink = Append(st.sink, [lvl |-> lvl, msg |-> msg])]
  ELSE IF lvl = LOG_LEVEL_INFORMATION
    THEN [st EXCEPT !.stdout = Append(st.stdout, msg \o <<"\n">>)]
  ELSE IF lvl < LOG_LEVEL_WARNING
    THEN [st EXCEPT !.stderr = Append(st.stderr, msg \o <<"\n">>)]
  ELSE st

log(st, lvl, msg) ==
  IF zabbix_runtime
    THEN [st EXCEPT !.sink = Append(st.sink, [lvl |-> lvl, msg |-> msg])]
  ELSE IF lvl = LOG_LEVEL_INFORMATION
    THEN [st EXCEPT !.stdout = Append(st.stdout, msg \o <<"\n">>)]
  ELSE IF lvl <= LOG_LEVEL_WARNING
    THEN [st EXCEPT !.stderr = Append(st.stderr, msg \o <<"\n">>)]
  ELSE st

info(st, msg) == log(st, LOG_LEVEL_INFORMATION, msg)

trace(st, msg) == log(st, LOG_LEVEL_TRACE, msg)

debug(st, msg) == log(st, LOG_LEVEL_DEBUG, msg)

warning(st, msg) == log(st, LOG_LEVEL_WARNING, msg)

error(st, msg) == log(st, LOG_LEVEL_ERR, msg)

critical(st, msg) == log(st, LOG_LEVEL_CRIT, msg)

(***************************************************************************)
(* Keys of items, and keys a request may carry ("k3" is carried by no item *)
(* of the model).                                                          *)
(***************************************************************************)
ItemKeys == {"python.version", "k1", "k2"}

RequestKeys == ItemKeys \cup {"k3"}

\* ["a", "b"], and [1, 2], whose elements are not strings.
StrParams == <<PyStr(<<"a">>), PyStr(<<"b">>)>>

IntParams == <<PyInt(1), PyInt(2)>>

\* AgentRequest.__init__
AgentRequest(key, params) == [key |-> key, params |-> params]

\* Requests with string parameters for every key, and one whose parameters
\* are not strings.
Requests ==
  {AgentRequest(k, StrParams) : k \in RequestKeys} \cup {AgentRequest("k1", IntParams)}

NoRequest == AgentRequest("", <<>>)

(***************************************************************************)
(* Handlers.  "version" is the built-in handler; "f1" and "f2" are         *)
(* provider handlers that return a value made of their own name and the    *)
(* request they were given; "fKeyError" raises KeyError (a failed          *)
(* dictionary lookup inside the handler); "fTimeout" raises the module's   *)
(* TimeoutError; "fValueError" raises a ValueError of its own.             *)
(***************************************************************************)
Handlers == {"version", "f1", "f2", "fKeyError", "fTimeout", "fValueError"}

NoValue == [text |-> None, request |-> NoRequest]

Return(v, h) ==
  [kind |-> "return", exc |-> None, detail |-> <<>>, value |-> v, called |-> h]

Raise(e, d, h) ==
  [kind |-> "raise", exc |-> e, detail |-> d, value |-> NoValue, called |-> h]

(***************************************************************************)
(* AgentRequest.__str__: "{0}[{1}]".format(key, ','.join(params)).  join   *)
(* raises TypeError at the first parameter that is not a str.              *)
(***************************************************************************)
NonStr(params) == {i \in 1..Len(params) : params[i].t # "str"}

TypeName(v) == IF v.t = "none" THEN "NoneType" ELSE v.t

JoinError(params) ==
  LET i == CHOOSE n \in NonStr(params) : \A m \in NonStr(params) : n <= m
  IN  Raise("TypeError",
            <<"sequence item ">> \o IntStr(i - 1)
              \o <<": expected str instance, ", TypeName(params[i]), " found">>,
            None)

AgentRequestStr(request) ==
  <<request.key, "[">>
    \o Join([i \in 1..Len(request.params) |-> request.params[i].s], <<",">>)
    \o <<"]">>

\* version(request): returns the runtime version string, whatever the request.
version(request) == [text |-> PythonVersionString, request |-> NoRequest]

\* TimeoutError.__str__
TimeoutErrorStr == <<"Operation timed out">>

\* Calling handler h with a request: the outcome of h(request).
Call(h, request) ==
  CASE h = "version"     -> Return(version(request), h)
    [] h = "fKeyError"   -> Raise("KeyError", <<"missing">>, h)
    [] h = "fTimeout"    -> Raise("TimeoutError", TimeoutErrorStr, h)
    [] h = "fValueError" -> Raise("ValueError", <<"bad parameter">>, h)
    [] OTHER             -> Return([text |-> h, request |-> request], h)

(***************************************************************************)
(* AgentItem(key, fn = fn): the fields stored by the constructor for a     *)
(* non-empty key and a non-null fn, with flags and test_param at their     *)
(* defaults.                                                               *)
(***************************************************************************)
AgentItem(key, fn) ==
  [key |-> key, flags |-> 0, test_param |-> None, fn |-> fn]

\* The items callers register directly.
DirectItems ==
  {AgentItem("k1", "f1"), AgentItem("k2", "fKeyError"), AgentItem("k2", "fTimeout")}

\* The built-in item registered by zbx_module_init.
BuiltinItem == AgentItem("python.version", "version")

(***************************************************************************)
(* The registry is the pair (items, routes) plus modules, together with    *)
(* what log has written.  routes is a function whose domain is the set of  *)
(* keys that have a route.                                                 *)
(***************************************************************************)
EmptyRoutes == [k \in {} |-> None]

Registry(its, rts, mods, st) ==
  [items |-> its, routes |-> rts, modules |-> mods, streams |-> st]

\* __routes[key] = fn
SetRoute(rts, key, fn) ==
  [k \in (DOMAIN rts) \cup {key} |-> IF k = key THEN fn ELSE rts[k]]

\* A register_item that keeps an existing route (first registration wins).
register_item_first_wins(reg, item) ==
  [reg EXCEPT !.streams = debug(reg.streams, <<"registering item ", item.key>>),
              !.items = Append(reg.items, item),
              !.routes = IF item.key \in DOMAIN reg.routes THEN reg.routes
                         ELSE SetRoute(reg.routes, item.key, item.fn)]

\* A register_item that puts the new item in front of the others.
register_item_prepend(reg, item) ==
  [reg EXCEPT !.streams = debug(reg.streams, <<"registering item ", item.key>>),
              !.items = <<item>> \o reg.items,
              !.routes = SetRoute(reg.routes, item.key, item.fn)]

\* register_item(item) applied to a registry: log, append, then set the route.
register_item(reg, item) ==
  [reg EXCEPT !.streams = debug(reg.streams, <<"registering item ", item.key>>),
              !.items = Append(reg.items, item),
              !.routes = SetRoute(reg.routes, item.key, item.fn)]

\* A route that hands the handler a request without the parameters.
route_drops_params(rts, request) ==
  IF NonStr(request.params) # {} THEN JoinError(request.params)
  ELSE IF request.key \in DOMAIN rts
    THEN LET out == Call(rts[request.key], AgentRequest(request.key, <<>>))
         IN  IF out.kind = "raise" /\ out.exc = "KeyError"
               THEN Raise("ValueError",
                          <<"no function registered for agent item ", request.key>>,
                          out.called)
               ELSE out
    ELSE Raise("ValueError",
               <<"no function registered for agent item ", request.key>>,
               None)

\* A route that returns an empty value for a key without a route.
route_default(rts, request) ==
  IF NonStr(request.params) # {} THEN JoinError(request.params)
  ELSE IF request.key \in DOMAIN rts
    THEN LET out == Call(rts[request.key], request)
         IN  IF out.kind = "raise" /\ out.exc = "KeyError"
               THEN Raise("ValueError",
                          <<"no function registered for agent item ", request.key>>,
                          out.called)
               ELSE out
    ELSE Return(NoValue, None)

\* A route that refuses to dispatch before zbx_module_init has run.
route_not_ready(rts, request) ==
  IF NonStr(request.params) # {} THEN JoinError(request.params)
  ELSE IF initRuns = 0 THEN Raise("NotReadyError", <<>>, None)
  ELSE IF request.key \in DOMAIN rts
    THEN LET out == Call(rts[request.key], request)
         IN  IF out.kind = "raise" /\ out.exc = "KeyError"
               THEN Raise("ValueError",
                          <<"no function registered for agent item ", request.key>>,
                          out.called)
               ELSE out
    ELSE Raise("ValueError",
               <<"no function registered for agent item ", request.key>>,
               None)

(***************************************************************************)
(* route(request) on routes rts: the outcome of the call.  The argument of *)
(* debug is formatted first, outside the try block: a TypeError of         *)
(* str(request) ends the call before the lookup.  The try block holds both *)
(* the lookup __routes[request.key] and the call of the handler, so a      *)
(* KeyError raised by the handler is caught as well.                       *)
(***************************************************************************)
\* debug("routing python request: %s" % request): what route writes.
route_debug(st, request) ==
  IF NonStr(request.params) # {} THEN st
  ELSE debug(st, <<"routing python request: ">> \o AgentRequestStr(request))

route(rts, request) ==
  IF NonStr(request.params) # {} THEN JoinError(request.params)
  ELSE IF request.key \in DOMAIN rts
    THEN LET out == Call(rts[request.key], request)
         IN  IF out.kind = "raise" /\ out.exc = "KeyError"
               THEN Raise("ValueError",
                          <<"no function registered for agent item ", request.key>>,
                          out.called)
               ELSE out
    ELSE Raise("ValueError",
               <<"no function registered for agent item ", request.key>>,
               None)

\* zbx_module_item_list()
zbx_module_item_list == items

(***************************************************************************)
(* Providers.  A provider module is described by what its two hooks do.    *)
(* init: "absent" (the module has no zbx_module_init), "ok" (the hook      *)
(* returns), or the class of the exception the hook raises.                *)
(* list: the shape of zbx_module_item_list: "absent"; "raise" (the hook    *)
(* raises exc); "single" (it returns one AgentItem, not iterable);         *)
(* "seq" (it returns a list of AgentItems); "gen" (it returns a generator  *)
(* that yields the items and then raises exc).                             *)
(***************************************************************************)
Hook(shape, its, exc) == [shape |-> shape, items |-> its, exc |-> exc]

Provider(init, list) == [init |-> init, list |-> list]

ProviderNames ==
  {"nohooks", "initonly", "listonly", "single", "initfails", "initattr",
   "listfails", "listattr", "listtype", "genfails", "gentype", "genattr"}

Providers ==
  [n \in ProviderNames |->
    CASE n = "nohooks"   -> Provider("absent", Hook("absent", <<>>, None))
      [] n = "initonly"  -> Provider("ok", Hook("absent", <<>>, None))
      [] n = "listonly"  -> Provider("absent",
                              Hook("seq", <<AgentItem("k2", "f2"),
                                            AgentItem("k1", "fValueError"),
                                            AgentItem("k2", "f1")>>, None))
      [] n = "single"    -> Provider("ok",
                              Hook("single", <<AgentItem("python.version", "f2")>>, None))
      [] n = "initfails" -> Provider("TimeoutError",
                              Hook("single", <<AgentItem("k2", "f2")>>, None))
      [] n = "initattr"  -> Provider("AttributeError",
                              Hook("single", <<AgentItem("k2", "f2")>>, None))
      [] n = "listfails" -> Provider("ok", Hook("raise", <<>>, "TimeoutError"))
      [] n = "listattr"  -> Provider("ok", Hook("raise", <<>>, "AttributeError"))
      [] n = "listtype"  -> Provider("ok", Hook("raise", <<>>, "TypeError"))
      [] n = "genfails"  -> Provider("ok",
                              Hook("gen", <<AgentItem("k1", "f2")>>, "TimeoutError"))
      [] n = "gentype"   -> Provider("ok",
                              Hook("gen", <<AgentItem("k1", "f2")>>, "TypeError"))
      [] n = "genattr"   -> Provider("absent",
                              Hook("gen", <<AgentItem("k2", "f1")>>, "AttributeError"))]

\* The exception a hook of provider mod raises: its class and its own message.
HookError(mod, hook, exc) == Raise(exc, <<mod, hook>>, None)

\* The outcome of a loader operation: the registry it leaves and how it ended.
Loaded(reg, out, newitems) == [reg |-> reg, out |-> out, newitems |-> newitems]

\* for item in newitems: register_item(item)
RECURSIVE register_items(_, _)
register_items(reg, its) ==
  IF its = <<>> THEN reg
  ELSE register_items(register_item(reg, Head(its)), Tail(its))

\* A register_module_items without the TypeError branch for a single item.
register_module_items_no_single(reg, mod) ==
  LET l == Providers[mod].list
      r0 == [reg EXCEPT !.streams =
               debug(reg.streams, <<"calling ", mod, ".zbx_module_item_list">>)]
      done == register_items(r0, l.items)
  IN  CASE l.shape = "absent" -> Loaded(r0, Return(NoValue, None), <<>>)
        [] l.shape = "raise"  ->
             IF l.exc = "AttributeError"
               THEN Loaded(r0, Return(NoValue, None), <<>>)
               ELSE Loaded(r0, HookError(mod, "zbx_module_item_list", l.exc), <<>>)
        [] l.shape = "single" ->
             Loaded(r0, Raise("TypeError", <<"'AgentItem' object is not iterable">>, None),
                    <<>>)
        [] l.shape = "seq"    -> Loaded(done, Return(NoValue, None), l.items)
        [] l.shape = "gen"    ->
             IF l.exc = "AttributeError"
               THEN Loaded(done, Return(NoValue, None), <<>>)
               ELSE Loaded(done, HookError(mod, "zbx_module_item_list", l.exc), <<>>)

(***************************************************************************)
(* register_module_items(mod).  The outer try catches AttributeError only, *)
(* the inner one (around the loop) TypeError only; in the TypeError branch *)
(* register_item(newitems) registers a single AgentItem, and raises        *)
(* AttributeError (caught by the outer try, before anything is logged) on  *)
(* anything without a key.                                                 *)
(***************************************************************************)
register_module_items(reg, mod) ==
  LET l == Providers[mod].list
      r0 == [reg EXCEPT !.streams =
               debug(reg.streams, <<"calling ", mod, ".zbx_module_item_list">>)]
      done == register_items(r0, l.items)
  IN  CASE l.shape = "absent" -> Loaded(r0, Return(NoValue, None), <<>>)
        [] l.shape = "raise"  ->
             IF l.exc = "AttributeError"
               THEN Loaded(r0, Return(NoValue, None), <<>>)
               ELSE Loaded(r0, HookError(mod, "zbx_module_item_list", l.exc), <<>>)
        [] l.shape = "single" ->
             Loaded(register_item(r0, l.items[1]), Return(NoValue, None), l.items)
        [] l.shape = "seq"    -> Loaded(done, Return(NoValue, None), l.items)
        [] l.shape = "gen"    ->
             IF l.exc \in {"TypeError", "AttributeError"}
               THEN Loaded(done, Return(NoValue, None), <<>>)
               ELSE Loaded(done, HookError(mod, "zbx_module_item_list", l.exc), <<>>)

\* A register_module that takes a module without init hook to declare no items.
register_module_needs_init(reg, mod) ==
  LET r1 == [reg EXCEPT
               !.streams = debug(debug(reg.streams, <<"registering module: ", mod>>),
                                 <<"calling ", mod, ".zbx_module_init">>),
               !.modules = Append(reg.modules, mod)]
      i  == Providers[mod].init
  IN  IF i \in {"ok", "AttributeError"}
        THEN register_module_items(r1, mod)
        ELSE IF i = "absent" THEN Loaded(r1, Return(NoValue, None), <<>>)
        ELSE Loaded(r1, HookError(mod, "zbx_module_init", i), <<>>)

(***************************************************************************)
(* register_module(mod): log, append to __modules, log, call the init hook *)
(* (an AttributeError, from a missing hook or from inside it, is passed    *)
(* over), then register_module_items.                                      *)
(***************************************************************************)
register_module(reg, mod) ==
  LET r1 == [reg EXCEPT
               !.streams = debug(debug(reg.streams, <<"registering module: ", mod>>),
                                 <<"calling ", mod, ".zbx_module_init">>),
               !.modules = Append(reg.modules, mod)]
      i  == Providers[mod].init
  IN  IF i \in {"absent", "ok", "AttributeError"}
        THEN register_module_items(r1, mod)
        ELSE Loaded(r1, HookError(mod, "zbx_module_init", i), <<>>)

(***************************************************************************)
(* zbx_module_init().  A package is found as a directory name, a module as *)
(* a file name <<stem, ".py">>; mod_names collects the package names and   *)
(* the file names, each before its register_module call.  An exception of  *)
(* register_module ends the function; when none is raised and mod_names   *)
(* is not empty, the function ends with the INFORMATION line.              *)
(***************************************************************************)
Candidate(mod_name, entry) == [mod_name |-> mod_name, entry |-> entry]

PackageCandidates(pkgs) == [i \in 1..Len(pkgs) |-> Candidate(pkgs[i], <<pkgs[i]>>)]

FileCandidates(files) == [i \in 1..Len(files) |-> Candidate(files[i][1], files[i])]

Discovery(reg, out, mod_names) == [reg |-> reg, out |-> out, mod_names |-> mod_names]

\* A discovery loop without the mod_name != __name__ test.
RECURSIVE load_all_no_guard(_, _)
load_all_no_guard(st, cands) ==
  IF cands = <<>> \/ st.out.kind = "raise" THEN st
  ELSE LET c == Head(cands)
       IN  IF c.mod_name # SelfName
             THEN LET o == register_module(st.reg, c.mod_name)
                  IN  load_all_no_guard(
                        Discovery(o.reg, o.out, Append(st.mod_names, c.entry)),
                        Tail(cands))
             ELSE load_all_no_guard(
                    Discovery([st.reg EXCEPT !.modules = Append(st.reg.modules, SelfName)],
                              st.out, Append(st.mod_names, c.entry)),
                    Tail(cands))

RECURSIVE load_all(_, _)
load_all(st, cands) ==
  IF cands = <<>> \/ st.out.kind = "raise" THEN st
  ELSE LET c == Head(cands)
       IN  IF c.mod_name # SelfName
             THEN LET o == register_module(st.reg, c.mod_name)
                  IN  load_all(Discovery(o.reg, o.out, Append(st.mod_names, c.entry)),
                               Tail(cands))
             ELSE load_all(st, Tail(cands))

\* ", ".join(mod_names), as the pieces of the resulting string.
RECURSIVE JoinNames(_)
JoinNames(mod_names) ==
  IF mod_names = <<>> THEN <<>>
  ELSE IF Len(mod_names) = 1 THEN Head(mod_names)
  ELSE Head(mod_names) \o <<", ">> \o JoinNames(Tail(mod_names))

\* The end of zbx_module_init: if mod_names: info("loaded python modules: ...")
LogLoaded(st, d) ==
  IF d.out.kind = "return" /\ d.mod_names # <<>>
    THEN info(st, <<"loaded python modules: ">> \o JoinNames(d.mod_names))
    ELSE st

\* A zbx_module_init that does nothing once it has run.
zbx_module_init_once(reg, pkgs, files) ==
  IF initRuns >= 1 THEN Discovery(reg, Return(NoValue, None), <<>>)
  ELSE LET d == load_all(Discovery(register_item(reg, BuiltinItem),
                                   Return(NoValue, None), <<>>),
                         PackageCandidates(pkgs) \o FileCandidates(files))
       IN  [d EXCEPT !.reg.streams = LogLoaded(d.reg.streams, d)]

\* A zbx_module_init that registers the built-in item after the providers.
zbx_module_init_builtin_last(reg, pkgs, files) ==
  LET st == load_all(Discovery(reg, Return(NoValue, None), <<>>),
                     PackageCandidates(pkgs) \o FileCandidates(files))
      d  == IF st.out.kind = "raise" THEN st
            ELSE Discovery(register_item(st.reg, BuiltinItem), st.out, st.mod_names)
  IN  [d EXCEPT !.reg.streams = LogLoaded(d.reg.streams, d)]

zbx_module_init(reg, pkgs, files) ==
  LET d == load_all(Discovery(register_item(reg, BuiltinItem), Return(NoValue, None), <<>>),
                    PackageCandidates(pkgs) \o FileCandidates(files))
  IN  [d EXCEPT !.reg.streams = LogLoaded(d.reg.streams, d)]

(***************************************************************************)
(* The contents of zabbix_module_path, as glob lists them.                 *)
(***************************************************************************)
PyFile(stem) == <<stem, ".py">>

SearchPaths ==
  { [packages |-> <<>>, pyfiles |-> <<>>],
    [packages |-> <<"single">>, pyfiles |-> <<PyFile("listonly"), PyFile("nohooks")>>],
    [packages |-> <<SelfName, "genfails">>,
     pyfiles |-> <<PyFile("single"), PyFile(SelfName)>>],
    [packages |-> <<"initattr">>, pyfiles |-> <<PyFile("initfails")>>],
    [packages |-> <<"gentype">>, pyfiles |-> <<PyFile("listtype")>>],
    [packages |-> <<SelfName, "listattr">>,
     pyfiles |-> <<PyFile(SelfName), PyFile("genattr")>>],
    [packages |-> <<"listfails">>, pyfiles |-> <<PyFile("initonly")>>] }

\* The providers installed under zabbix_module_path.
Installed ==
  ({packages[i] : i \in 1..Len(packages)} \cup {pyfiles[i][1] : i \in 1..Len(pyfiles)})
    \ {SelfName}

(***************************************************************************)
(* The record of the last operation.                                       *)
(***************************************************************************)
OpResult(op, arg, request, out) ==
  [op |-> op, arg |-> arg, request |-> request, out |-> out]

NoOut == Return(NoValue, None)

NoCall == [fn |-> None]

(***************************************************************************)
(* Spec: the registry operations, in a process that runs outside the agent *)
(* (zabbix_runtime is not importable), where log drops the DEBUG lines of  *)
(* register_item, route and the loader and prints the INFORMATION line of  *)
(* zbx_module_init.                                                        *)
(***************************************************************************)

Init ==
  /\ items = <<>>
  /\ routes = EmptyRoutes
  /\ modules = <<>>
  /\ \E sp \in SearchPaths : packages = sp.packages /\ pyfiles = sp.pyfiles
  /\ initRuns = 0
  /\ result = OpResult("start", None, NoRequest, NoOut)
  /\ zabbix_runtime = FALSE
  /\ streams = NoStreams
  /\ call = NoCall

\* A caller constructs an item and registers it.
RegisterItem ==
  \E it \in DirectItems :
    LET reg == register_item(Registry(items, routes, modules, streams), it)
    IN  /\ Len(items) < MaxItems
        /\ items' = reg.items
        /\ routes' = reg.routes
        /\ result' = OpResult("register_item", it.key, NoRequest, NoOut)
        /\ streams' = reg.streams
        /\ UNCHANGED <<modules, packages, pyfiles, initRuns, zabbix_runtime, call>>

\* A route whose lookup leaves an entry behind for a key without a route.
Route_setdefault ==
  \E r \in Requests :
    /\ result' = OpResult("route", r.key, r, route(routes, r))
    /\ routes' = IF r.key \in DOMAIN routes THEN routes ELSE SetRoute(routes, r.key, None)
    /\ streams' = route_debug(streams, r)
    /\ UNCHANGED <<items, modules, packages, pyfiles, initRuns, zabbix_runtime, call>>

\* The host routes a request.
Route ==
  \E r \in Requests :
    /\ result' = OpResult("route", r.key, r, route(routes, r))
    /\ streams' = route_debug(streams, r)
    /\ UNCHANGED <<items, routes, modules, packages, pyfiles, initRuns,
                   zabbix_runtime, call>>

\* A caller loads one of the installed providers.
RegisterModule ==
  \E mod \in Installed :
    LET o == register_module(Registry(items, routes, modules, streams), mod)
    IN  /\ Len(o.reg.items) <= MaxItems
        /\ Len(o.reg.modules) <= MaxModules
        /\ items' = o.reg.items
        /\ routes' = o.reg.routes
        /\ modules' = o.reg.modules
        /\ result' = OpResult("register_module", mod, NoRequest, o.out)
        /\ streams' = o.reg.streams
        /\ UNCHANGED <<packages, pyfiles, initRuns, zabbix_runtime, call>>

\* A caller registers the items of an installed provider, given as a module.
RegisterModuleItems ==
  \E mod \in Installed :
    LET o == register_module_items(Registry(items, routes, modules, streams), mod)
    IN  /\ Len(o.reg.items) <= MaxItems
        /\ items' = o.reg.items
        /\ routes' = o.reg.routes
        /\ result' = OpResult("register_module_items", mod, NoRequest, o.out)
        /\ streams' = o.reg.streams
        /\ UNCHANGED <<modules, packages, pyfiles, initRuns, zabbix_runtime, call>>

\* The runtime calls the initialization entry point.
ZbxModuleInit ==
  LET o == zbx_module_init(Registry(items, routes, modules, streams), packages, pyfiles)
  IN  /\ initRuns < MaxInit
      /\ Len(o.reg.items) <= MaxItems
      /\ Len(o.reg.modules) <= MaxModules
      /\ items' = o.reg.items
      /\ routes' = o.reg.routes
      /\ modules' = o.reg.modules
      /\ initRuns' = initRuns + 1
      /\ result' = OpResult("zbx_module_init", None, NoRequest, o.out)
      /\ streams' = o.reg.streams
      /\ UNCHANGED <<packages, pyfiles, zabbix_runtime, call>>

Next == RegisterItem \/ Route \/ RegisterModule \/ RegisterModuleItems \/ ZbxModuleInit

Spec == Init /\ [][Next]_vars

(***************************************************************************)
(* Helpers of the properties.                                              *)
(***************************************************************************)
\* The positions of the items of its whose key is k.
Positions(its, k) == {i \in 1..Len(its) : its[i].key = k}

\* k was passed to register_item: some registered item carries it.
Registered(its, k) == Positions(its, k) # {}

\* The most recently registered item with key k.
LastItem(its, k) ==
  its[CHOOSE i \in Positions(its, k) : \A j \in Positions(its, k) : j <= i]

\* A request as the data model has it: every parameter is a string.
WellFormed(request) == NonStr(request.params) = {}

\* The unknown-item error of route for key k.
UnknownItemError(k) ==
  Raise("ValueError", <<"no function registered for agent item ", k>>, None)

(***************************************************************************)
(* C1.  After register_item(item) with key k and handler h, and with no    *)
(* later registration under k, route(request) with request.key = k, for a  *)
(* request with string parameters, invokes h with that request, and        *)
(* returns exactly the value h returns.                                    *)
(***************************************************************************)
C1_RouteReturnsHandlerResult ==
  (/\ result.op = "route"
   /\ WellFormed(result.request)
   /\ Registered(items, result.request.key)) =>
    LET h == LastItem(items, result.request.key).fn
        expected == Call(h, result.request)
    IN  /\ result.out.called = h
        /\ expected.kind = "return" =>
             /\ result.out.kind = "return"
             /\ result.out.value = expected.value

C1_Witness ==
  /\ result.op = "route"
  /\ result.out.kind = "return"
  /\ result.out.called = "f1"
  /\ result.out.value = [text |-> "f1", request |-> AgentRequest("k1", StrParams)]
  /\ Len(items) >= 3
  /\ items[Len(items)].key # "k1"

(***************************************************************************)
(* C2.  route, for a request with string parameters and a key that was     *)
(* never passed to register_item, fails with the "no function registered"  *)
(* error carrying the requested key; it returns nothing and invokes no     *)
(* handler.                                                                *)
(***************************************************************************)
C2_UnregisteredKeyFails ==
  (/\ result.op = "route"
   /\ WellFormed(result.request)
   /\ ~Registered(items, result.request.key)) =>
    result.out = UnknownItemError(result.request.key)

C2_Witness ==
  /\ result.op = "route"
  /\ result.request.key = "k3"
  /\ Len(items) >= 2
  /\ result.out.kind = "raise"
  /\ result.out.called = None

(***************************************************************************)
(* C3.  Registering an item under a key that already has an item appends   *)
(* it after the earlier one (both stay in item_list(), in registration     *)
(* order), and makes the route of the key the new item's handler; a route  *)
(* with string parameters, for a key with several items, invokes the       *)
(* handler of the last of them.                                            *)
(***************************************************************************)
C3_LastWriteWinsStep ==
  /\ (result'.op = "register_item" /\ items' # items
        /\ Registered(items, result'.arg)) =>
       /\ Len(items') = Len(items) + 1
       /\ SubSeq(items', 1, Len(items)) = items
       /\ items'[Len(items')].key = result'.arg
       /\ Cardinality(Positions(items', result'.arg)) >= 2
       /\ routes'[result'.arg] = items'[Len(items')].fn
  /\ (result'.op = "route"
        /\ WellFormed(result'.request)
        /\ Cardinality(Positions(items', result'.request.key)) >= 2) =>
       result'.out.called = LastItem(items', result'.request.key).fn

C3_LastWriteWins == [][C3_LastWriteWinsStep]_vars

C3_Witness ==
  /\ result.op = "route"
  /\ result.request.key = "k1"
  /\ \E i, j \in 1..Len(items) :
        /\ i < j
        /\ items[i] = AgentItem("k1", "f1")
        /\ items[j] = AgentItem("k1", "f2")
        /\ \A n \in Positions(items, "k1") : n <= j
  /\ result.out.called = "f2"

(***************************************************************************)
(* C4.  For a request with string parameters whose key has a route, the    *)
(* outcome of route is the outcome of the handler: whatever the handler    *)
(* raises reaches the caller unmodified.                                   *)
(***************************************************************************)
C4_HandlerOutcomeUnchanged ==
  (/\ result.op = "route"
   /\ WellFormed(result.request)
   /\ result.request.key \in DOMAIN routes) =>
    result.out = Call(routes[result.request.key], result.request)

(***************************************************************************)
(* C5.  As claimed: a route call, for a request with string parameters,    *)
(* made before zbx_module_init has run fails with NotReadyError, whatever  *)
(* the key.                                                                *)
(***************************************************************************)
C5_RouteBeforeInitNotReady ==
  (result.op = "route" /\ WellFormed(result.request) /\ initRuns = 0) =>
    (result.out.kind = "raise" /\ result.out.exc = "NotReadyError")

(***************************************************************************)
(* C5, amended.  route makes no readiness check: before zbx_module_init    *)
(* has run it behaves as at any other time.  It never raises               *)
(* NotReadyError; for a request with string parameters and a key without a *)
(* registered item it fails with the "no function registered" error, and   *)
(* for one with a key that has an item it invokes the handler of the last  *)
(* item registered under the key.                                          *)
(***************************************************************************)
C5_NoReadinessCheck ==
  (result.op = "route" /\ initRuns = 0) =>
    /\ result.out.exc # "NotReadyError"
    /\ (WellFormed(result.request) /\ ~Registered(items, result.request.key)) =>
         result.out = UnknownItemError(result.request.key)
    /\ (WellFormed(result.request) /\ Registered(items, result.request.key)) =>
         result.out.called = LastItem(items, result.request.key).fn

C5_Witness ==
  /\ result.op = "route"
  /\ initRuns = 0
  /\ result.out.kind = "return"
  /\ result.out.called = "f2"

\* A step that is a call of zbx_module_init.
InitStep == initRuns' # initRuns

\* A step that is a call of register_module (outside zbx_module_init).
LoadStep == result'.op = "register_module" /\ modules' # modules

(***************************************************************************)
(* C6.  As claimed: once zbx_module_init has run, a further call of it     *)
(* does not run registration and discovery again: it leaves items, routes  *)
(* and modules as they are.                                                *)
(***************************************************************************)
C6_ReadyIsTerminal ==
  [][(initRuns >= 1 /\ InitStep) =>
       (items' = items /\ routes' = routes /\ modules' = modules)]_vars

(***************************************************************************)
(* C6, amended.  zbx_module_init has no run-once guard: every call of it,  *)
(* the first or a later one, registers the built-in item again and then    *)
(* loads the discovered providers again, starting with the first candidate *)
(* that is not the loader itself.  No operation removes or reorders an     *)
(* item or a module, so the registry never returns to an earlier state.    *)
(***************************************************************************)
C6_InitRerunsStep ==
  /\ InitStep =>
       /\ Len(items') > Len(items)
       /\ items'[Len(items) + 1] = BuiltinItem
       /\ Installed # {} =>
            /\ Len(modules') > Len(modules)
            /\ modules'[Len(modules) + 1] \in Installed
  /\ Len(items') >= Len(items)
  /\ SubSeq(items', 1, Len(items)) = items
  /\ Len(modules') >= Len(modules)
  /\ SubSeq(modules', 1, Len(modules)) = modules
  /\ initRuns' >= initRuns

C6_InitReruns == [][C6_InitRerunsStep]_vars

C6_Witness ==
  /\ initRuns = 2
  /\ result.op = "zbx_module_init"
  /\ Cardinality({i \in 1..Len(items) : items[i] = BuiltinItem}) = 2
  /\ Len(modules) = 2
  /\ modules[1] = modules[2]

(***************************************************************************)
(* C7.  Once zbx_module_init has run, the built-in item (key               *)
(* python.version, handler version) is in item_list(), and stays there     *)
(* whatever providers were discovered and whatever is registered later.    *)
(***************************************************************************)
C7_BuiltinItemPresent ==
  initRuns >= 1 =>
    \E i \in 1..Len(zbx_module_item_list) :
      /\ zbx_module_item_list[i] = BuiltinItem
      /\ zbx_module_item_list[i].fn = "version"

C7_Witness ==
  /\ initRuns >= 1
  /\ result.op = "register_module"
  /\ result.arg = "single"
  /\ routes["python.version"] = "f2"
  /\ \E i \in 1..Len(modules) : modules[i] = "genfails"

(***************************************************************************)
(* C8.  Loading a provider whose init hook is absent or returns, and whose *)
(* item-list hook returns one AgentItem or a list of AgentItems, completes *)
(* normally and registers every returned item: the items are appended to   *)
(* item_list() once each, in the order returned, and each of their keys    *)
(* routes to the handler of the last returned item with that key.          *)
(***************************************************************************)
C8_LoadRegistersAllStep ==
  (/\ LoadStep
   /\ Providers[result'.arg].init \in {"absent", "ok"}
   /\ Providers[result'.arg].list.shape \in {"single", "seq"}) =>
    LET returned == Providers[result'.arg].list.items
    IN  /\ result'.out.kind = "return"
        /\ items' = items \o returned
        /\ modules' = Append(modules, result'.arg)
        /\ \A n \in 1..Len(returned) :
             /\ returned[n].key \in DOMAIN routes'
             /\ routes'[returned[n].key] = LastItem(returned, returned[n].key).fn

C8_LoadRegistersAll == [][C8_LoadRegistersAllStep]_vars

C8_Witness ==
  /\ result.op = "register_module"
  /\ result.arg = "listonly"
  /\ result.out.kind = "return"
  /\ modules = <<"listonly">>
  /\ items = Providers["listonly"].list.items
  /\ routes["k2"] = "f1"
  /\ routes["k1"] = "fValueError"

\* The hook of provider mod that raises first, if one does, and what it raises.
HookRaises(mod) ==
  \/ Providers[mod].init \notin {"absent", "ok"}
  \/ Providers[mod].list.shape \in {"raise", "gen"}

RaisedError(mod) ==
  IF Providers[mod].init \notin {"absent", "ok"}
    THEN HookError(mod, "zbx_module_init", Providers[mod].init)
    ELSE HookError(mod, "zbx_module_item_list", Providers[mod].list.exc)

(***************************************************************************)
(* C9.  As claimed: whatever error a hook of a provider raises, in the     *)
(* init hook, in the item-list hook or while the items it yields are being *)
(* registered, register_module fails with that same error, and the items   *)
(* registered before the error stay registered.                            *)
(***************************************************************************)
C9_HookErrorPropagates ==
  [][(LoadStep /\ HookRaises(result'.arg)) =>
       /\ result'.out = RaisedError(result'.arg)
       /\ items' = IF Providers[result'.arg].init \notin {"absent", "ok"}
                     THEN items
                     ELSE items \o Providers[result'.arg].list.items]_vars

(***************************************************************************)
(* C10.  As claimed: a provider that lacks the init hook, the item-list    *)
(* hook or both loads without error and leaves items and routes as they    *)
(* were.                                                                   *)
(***************************************************************************)
C10_MissingHookDeclaresNothing ==
  [][(/\ LoadStep
      /\ \/ Providers[result'.arg].init = "absent"
         \/ Providers[result'.arg].list.shape = "absent") =>
       (result'.out.kind = "return" /\ items' = items /\ routes' = routes)]_vars

(***************************************************************************)
(* C10, amended.  The absence of a hook is not an error, and only the      *)
(* absence of the item-list hook means that the provider declares no       *)
(* items.  A provider without item-list hook, whose init hook is absent or *)
(* returns, loads without error and leaves items and routes as they were.  *)
(* A provider that lacks only the init hook is loaded as its item-list     *)
(* hook says: the items it returns or yields are registered, and the load  *)
(* completes normally when the hook returns one item or a list.            *)
(***************************************************************************)
C10_MissingHookStep ==
  /\ (/\ LoadStep
      /\ Providers[result'.arg].list.shape = "absent"
      /\ Providers[result'.arg].init \in {"absent", "ok"}) =>
       /\ result'.out.kind = "return"
       /\ items' = items
       /\ routes' = routes
       /\ modules' = Append(modules, result'.arg)
  /\ (/\ LoadStep
      /\ Providers[result'.arg].init = "absent"
      /\ Providers[result'.arg].list.shape # "absent") =>
       /\ items' = items \o Providers[result'.arg].list.items
       /\ Providers[result'.arg].list.shape \in {"single", "seq"} =>
            result'.out.kind = "return"

C10_MissingHook == [][C10_MissingHookStep]_vars

C10_Witness ==
  /\ result.op = "register_module"
  /\ result.arg = "listonly"
  /\ result.out.kind = "return"
  /\ modules = <<"nohooks", "listonly">>
  /\ Len(items) = 3
  /\ items[3] = AgentItem("k2", "f1")

\* The providers zbx_module_init finds, in discovery order, the loader excluded.
RECURSIVE NonSelf(_)
NonSelf(cands) ==
  IF cands = <<>> THEN <<>>
  ELSE IF Head(cands).mod_name = SelfName THEN NonSelf(Tail(cands))
  ELSE <<Head(cands).mod_name>> \o NonSelf(Tail(cands))

Discovered == NonSelf(PackageCandidates(packages) \o FileCandidates(pyfiles))

(***************************************************************************)
(* C11.  As claimed: in a call of zbx_module_init, the first discovered    *)
(* provider with a hook that raises ends the discovery pass.  The error of *)
(* that hook reaches the caller, no later candidate is loaded, and the     *)
(* built-in item and the items registered before stay registered.          *)
(***************************************************************************)
C11_FailingProviderAborts ==
  [][(InitStep /\ \E i \in 1..Len(Discovered) : HookRaises(Discovered[i])) =>
       LET f == CHOOSE i \in 1..Len(Discovered) :
                  /\ HookRaises(Discovered[i])
                  /\ \A j \in 1..(i - 1) : ~HookRaises(Discovered[j])
       IN  /\ result'.out = RaisedError(Discovered[f])
           /\ modules' = modules \o SubSeq(Discovered, 1, f)
           /\ SubSeq(items', 1, Len(items)) = items
           /\ items'[Len(items) + 1] = BuiltinItem]_vars

(***************************************************************************)
(* C12.  As claimed: a call of zbx_module_init calls register_module       *)
(* exactly once for each candidate that is not the loader itself, and      *)
(* never for the loader.                                                   *)
(***************************************************************************)
C12_EveryOtherCandidateLoaded ==
  [][InitStep =>
       /\ modules' = modules \o Discovered
       /\ \A i \in 1..Len(modules') : modules'[i] # SelfName]_vars

(***************************************************************************)
(* C12, amended.  A call of zbx_module_init never calls register_module    *)
(* for a candidate whose name is the loader's own, so the loader never     *)
(* appears in modules.  It calls register_module once, in discovery order, *)
(* for each other candidate up to and including the first one whose load   *)
(* raises, where the pass ends; when no load raises, for every one.        *)
(***************************************************************************)
C12_SelfNeverLoadedStep ==
  InitStep =>
    /\ \A i \in 1..Len(modules') : modules'[i] # SelfName
    /\ \E n \in 0..Len(Discovered) :
         /\ modules' = modules \o SubSeq(Discovered, 1, n)
         /\ result'.out.kind = "return" => n = Len(Discovered)
         /\ result'.out.kind = "raise" =>
              (n >= 1 /\ result'.out.detail[1] = Discovered[n])

C12_SelfNeverLoaded == [][C12_SelfNeverLoadedStep]_vars

C12_Witness ==
  /\ result.op = "zbx_module_init"
  /\ result.out.kind = "return"
  /\ packages = <<SelfName, "listattr">>
  /\ pyfiles = <<PyFile(SelfName), PyFile("genattr")>>
  /\ modules = <<"listattr", "genattr">>
  /\ streams.stdout =
       << <<"loaded python modules: ", "listattr", ", ", "genattr", ".py", "\n">> >>

\* routes holds exactly the keys of the items, each with its last item's handler.
RoutesMatchItems(its, rts) ==
  /\ DOMAIN rts = {its[i].key : i \in 1..Len(its)}
  /\ \A k \in DOMAIN rts : rts[k] = LastItem(its, k).fn

(***************************************************************************)
(* C19.  In every reachable state the keys of routes are the keys that     *)
(* occur in items, and routes[k] is the handler of the last item with key  *)
(* k.  items only grows: no step removes or reorders an element, and a     *)
(* register_item call appends exactly one element at the end.              *)
(***************************************************************************)
C19_RoutesFollowItemsStep ==
  /\ RoutesMatchItems(items, routes)
  /\ RoutesMatchItems(items', routes')
  /\ Len(items') >= Len(items)
  /\ SubSeq(items', 1, Len(items)) = items
  /\ result'.op = "register_item" =>
       /\ Len(items') = Len(items) + 1
       /\ items'[Len(items')].key = result'.arg

C19_RoutesFollowItems == [][C19_RoutesFollowItemsStep]_vars

C19_Witness ==
  /\ result.op = "register_item"
  /\ initRuns >= 1
  /\ modules # <<>>
  /\ Len(items) = 3
  /\ Cardinality(DOMAIN routes) < Len(items)
  /\ items[1] \in DirectItems

(***************************************************************************)
(* C20.  route never changes the registry: whether the call returns a      *)
(* value, fails with the unknown-item error or passes on an error of the   *)
(* handler, items, routes and modules are the same after it as before.     *)
(***************************************************************************)
C20_RouteLeavesRegistry ==
  [][result'.op = "route" =>
       (items' = items /\ routes' = routes /\ modules' = modules)]_vars

C20_Witness ==
  /\ result.op = "route"
  /\ result.out.kind = "raise"
  /\ result.out.exc = "TimeoutError"
  /\ Len(items) >= 2
  /\ modules # <<>>

(***************************************************************************)
(* SpecLog: calls of log and of its wrappers, in a process with            *)
(* zabbix_runtime (embedded) or without it.                                *)
(***************************************************************************)
LogLevels ==
  {LOG_LEVEL_CRIT, LOG_LEVEL_ERR, LOG_LEVEL_WARNING, LOG_LEVEL_DEBUG,
   LOG_LEVEL_TRACE, LOG_LEVEL_INFORMATION}

LogMessages == {<<"m1">>, <<"m2">>}

Wrappers == {"info", "trace", "debug", "warning", "error", "critical"}

Written == Len(streams.sink) + Len(streams.stdout) + Len(streams.stderr)

\* The state of the registry when the module has just been imported.
IdleRegistry ==
  /\ items = <<>>
  /\ routes = EmptyRoutes
  /\ modules = <<>>
  /\ packages = <<>>
  /\ pyfiles = <<>>
  /\ initRuns = 0
  /\ result = OpResult("start", None, NoRequest, NoOut)

registryVars == <<items, routes, modules, packages, pyfiles, initRuns, result>>

InitLog ==
  /\ IdleRegistry
  /\ zabbix_runtime \in BOOLEAN
  /\ streams = NoStreams
  /\ call = NoCall

Log ==
  \E lvl \in LogLevels, msg \in LogMessages :
    /\ Written < MaxWrites
    /\ streams' = log(streams, lvl, msg)
    /\ call' = [fn |-> "log", lvl |-> lvl, msg |-> msg]
    /\ UNCHANGED <<registryVars, zabbix_runtime>>

LogWrapper ==
  \E w \in Wrappers, msg \in LogMessages :
    /\ Written < MaxWrites
    /\ streams' = CASE w = "info"     -> info(streams, msg)
                    [] w = "trace"    -> trace(streams, msg)
                    [] w = "debug"    -> debug(streams, msg)
                    [] w = "warning"  -> warning(streams, msg)
                    [] w = "error"    -> error(streams, msg)
                    [] w = "critical" -> critical(streams, msg)
    /\ call' = [fn |-> w, lvl |-> 0, msg |-> msg]
    /\ UNCHANGED <<registryVars, zabbix_runtime>>

NextLog == Log \/ LogWrapper

SpecLog == InitLog /\ [][NextLog]_vars

(***************************************************************************)
(* C18.  log(level, message) writes each message to one destination or to  *)
(* none.  With a host sink (zabbix_runtime) every message of every level   *)
(* goes to the sink and nowhere else.  Without it, INFORMATION goes to     *)
(* standard output, CRIT, ERR and WARNING go to standard error, and DEBUG  *)
(* and TRACE are dropped without a write.                                  *)
(***************************************************************************)
C18_OneDestinationStep ==
  call'.fn = "log" =>
    LET lvl  == call'.lvl
        line == call'.msg \o <<"\n">>
    IN  IF zabbix_runtime
          THEN /\ streams'.sink = Append(streams.sink, [lvl |-> lvl, msg |-> call'.msg])
               /\ streams'.stdout = streams.stdout
               /\ streams'.stderr = streams.stderr
        ELSE IF lvl = 127
          THEN /\ streams'.stdout = Append(streams.stdout, line)
               /\ streams'.stderr = streams.stderr
               /\ streams'.sink = streams.sink
        ELSE IF lvl \in {1, 2, 3}
          THEN /\ streams'.stderr = Append(streams.stderr, line)
               /\ streams'.stdout = streams.stdout
               /\ streams'.sink = streams.sink
        ELSE lvl \in {4, 5} /\ streams' = streams

C18_OneDestination == [][C18_OneDestinationStep]_vars

C18_Witness ==
  /\ ~zabbix_runtime
  /\ call.fn = "log"
  /\ call.lvl = LOG_LEVEL_TRACE
  /\ streams.stdout = << <<"m1", "\n">> >>
  /\ streams.stderr = << <<"m2", "\n">> >>
  /\ streams.sink = <<>>

(***************************************************************************)
(* Strings that are processed character by character are sequences of      *)
(* one-character strings.                                                  *)
(***************************************************************************)
Lowercase ==
  <<"a", "b", "c", "d", "e", "f", "g", "h", "i", "j", "k", "l", "m",
    "n", "o", "p", "q", "r", "s", "t", "u", "v", "w", "x", "y", "z">>

Uppercase ==
  <<"A", "B", "C", "D", "E", "F", "G", "H", "I", "J", "K", "L", "M",
    "N", "O", "P", "Q", "R", "S", "T", "U", "V", "W", "X", "Y", "Z">>

\* The characters of the class a-zA-Z.
AsciiLetters ==
  {Lowercase[i] : i \in 1..Len(Lowercase)} \cup {Uppercase[i] : i \in 1..Len(Uppercase)}

\* The characters of the class [\s_-] among those the model uses.
SeparatorClass == {" ", "\t", "\n", "_", "-"}

\* str.upper() on one character.
UpperChar(c) ==
  IF \E i \in 1..Len(Lowercase) : Lowercase[i] = c
    THEN Uppercase[CHOOSE i \in 1..Len(Lowercase) : Lowercase[i] = c]
    ELSE c

\* key.upper()
Upper(str) == [i \in 1..Len(str) |-> UpperChar(str[i])]

\* A character is in the class [chars], or in [^chars] when negated.
InClass(c, chars, negated) == (c \in chars) # negated

\* The rest of str after its leading run of characters of the class.
RECURSIVE SkipRun(_, _, _)
SkipRun(str, chars, negated) ==
  IF str # <<>> /\ InClass(Head(str), chars, negated)
    THEN SkipRun(Tail(str), chars, negated)
    ELSE str

\* re.sub('[chars]+', repl, str): each maximal run of the class becomes repl.
RECURSIVE re_sub(_, _, _, _)
re_sub(chars, negated, repl, str) ==
  IF str = <<>> THEN <<>>
  ELSE IF InClass(Head(str), chars, negated)
    THEN repl \o re_sub(chars, negated, repl, SkipRun(str, chars, negated))
    ELSE <<Head(str)>> \o re_sub(chars, negated, repl, Tail(str))

\* A macro_name without the step that reduces duplicate underscores.
macro_name_no_reduce(key) ==
  LET m1 == Upper(key)
      m2 == re_sub(SeparatorClass, FALSE, <<"_">>, m1)
      m3 == re_sub(AsciiLetters \cup {"_"}, TRUE, <<>>, m2)
  IN  <<"{", "#">> \o m3 \o <<"}">>

\* macro_name(key)
macro_name(key) ==
  LET m1 == Upper(key)
      m2 == re_sub(SeparatorClass, FALSE, <<"_">>, m1)
      m3 == re_sub(AsciiLetters \cup {"_"}, TRUE, <<>>, m2)
      m4 == re_sub({"_"}, FALSE, <<"_">>, m3)
  IN  <<"{", "#">> \o m4 \o <<"}">>

(***************************************************************************)
(* SpecMacro: macro_name applied to every string of at most MaxLen         *)
(* characters of MacroAlphabet, and to the strings of the examples.        *)
(***************************************************************************)
MacroAlphabet == {"a", "B", "1", " ", "_", "-", "!"}

StringsUpTo(n, alphabet) == UNION {[1..m -> alphabet] : m \in 0..n}

ExampleKeys ==
  { <<"c", "p", "u", " ", "u", "s", "a", "g", "e">>,
    <<"f", "r", "e", "e", "-", "s", "p", "a", "c", "e", "!", "!">>,
    <<"1", "2", "3">> }

MacroInputs == StringsUpTo(MaxLen, MacroAlphabet) \cup ExampleKeys

\* The registry and the log are idle while the pure functions are called.
Idle == IdleRegistry /\ zabbix_runtime = FALSE /\ streams = NoStreams

idleVars == <<registryVars, zabbix_runtime, streams>>

InitMacro ==
  /\ Idle
  /\ \E k \in MacroInputs :
       call = [fn |-> "macro_name", key |-> k, done |-> FALSE, out |-> <<>>]

MacroName ==
  /\ ~call.done
  /\ call' = [call EXCEPT !.done = TRUE, !.out = macro_name(call.key)]
  /\ UNCHANGED idleVars

NextMacro == MacroName

SpecMacro == InitMacro /\ [][NextMacro]_vars

(***************************************************************************)
(* The result of the five steps, computed in one pass over the input: a    *)
(* letter gives its uppercase, a whitespace, underscore or hyphen gives an *)
(* underscore unless the last character given is an underscore, and any    *)
(* other character gives nothing.                                          *)
(***************************************************************************)
RECURSIVE OnePass(_, _)
OnePass(str, acc) ==
  IF str = <<>> THEN acc
  ELSE LET c == Head(str)
       IN  IF c \in AsciiLetters THEN OnePass(Tail(str), Append(acc, UpperChar(c)))
           ELSE IF c \in SeparatorClass /\ (acc = <<>> \/ acc[Len(acc)] # "_")
             THEN OnePass(Tail(str), Append(acc, "_"))
           ELSE OnePass(Tail(str), acc)

(***************************************************************************)
(* C15.  macro_name returns the result of the five steps: the uppercased   *)
(* letters of the input in order, one underscore where the input has       *)
(* whitespace, underscores or hyphens (with or without other non-letters   *)
(* among them) and nothing for the other characters, wrapped in {# and }.  *)
(* The three examples give {#CPU_USAGE}, {#FREE_SPACE} and {#}.            *)
(***************************************************************************)
C15_MacroNameFiveSteps ==
  (call.fn = "macro_name" /\ call.done) =>
    /\ call.out = <<"{", "#">> \o OnePass(call.key, <<>>) \o <<"}">>
    /\ call.key = <<"c", "p", "u", " ", "u", "s", "a", "g", "e">> =>
         call.out = <<"{", "#", "C", "P", "U", "_", "U", "S", "A", "G", "E", "}">>
    /\ call.key = <<"f", "r", "e", "e", "-", "s", "p", "a", "c", "e", "!", "!">> =>
         call.out = <<"{", "#", "F", "R", "E", "E", "_", "S", "P", "A", "C", "E", "}">>
    /\ call.key = <<"1", "2", "3">> => call.out = <<"{", "#", "}">>

C15_Witness ==
  /\ call.fn = "macro_name"
  /\ call.done
  /\ call.key = <<"a", "_", "1", "-">>
  /\ call.out = <<"{", "#", "A", "_", "}">>

(***************************************************************************)
(* A dict is the sequence of its <<key, value>> pairs in insertion order.  *)
(***************************************************************************)
\* d[k] = v: a key already in d keeps its place and gets the new value.
DictSet(d, k, v) ==
  IF \E i \in 1..Len(d) : d[i][1] = k
    THEN [i \in 1..Len(d) |-> IF d[i][1] = k THEN <<k, v>> ELSE d[i]]
    ELSE Append(d, <<k, v>>)

\* An inner loop of discovery without the "if val" test.
RECURSIVE lld_item_keep_falsy(_, _)
lld_item_keep_falsy(pairs, acc) ==
  IF pairs = <<>> THEN acc
  ELSE lld_item_keep_falsy(Tail(pairs),
         DictSet(acc, macro_name(Head(pairs)[1]), PyToStr(Head(pairs)[2])))

\* The inner loop of discovery: the lld_item built from the pairs of a record.
RECURSIVE lld_item(_, _)
lld_item(pairs, acc) ==
  IF pairs = <<>> THEN acc
  ELSE lld_item(Tail(pairs),
         IF Truthy(Head(pairs)[2])
           THEN DictSet(acc, macro_name(Head(pairs)[1]), PyToStr(Head(pairs)[2]))
           ELSE acc)

\* An outer loop of discovery without the "if lld_item" test.
RECURSIVE lld_data_keep_empty(_)
lld_data_keep_empty(data) ==
  IF data = <<>> THEN <<>>
  ELSE <<lld_item(Head(data), <<>>)>> \o lld_data_keep_empty(Tail(data))

\* The outer loop of discovery: lld_data['data'].
RECURSIVE lld_data(_)
lld_data(data) ==
  IF data = <<>> THEN <<>>
  ELSE LET it == lld_item(Head(data), <<>>)
       IN  (IF it # <<>> THEN <<it>> ELSE <<>>) \o lld_data(Tail(data))

\* The JSON text of a string: quoted, with " \ and the control characters escaped.
RECURSIVE JsonEscape(_)
JsonEscape(str) ==
  IF str = <<>> THEN <<>>
  ELSE (CASE Head(str) = "\"" -> <<"\\", "\"">>
          [] Head(str) = "\\" -> <<"\\", "\\">>
          [] Head(str) = "\n" -> <<"\\", "n">>
          [] Head(str) = "\t" -> <<"\\", "t">>
          [] OTHER            -> <<Head(str)>>) \o JsonEscape(Tail(str))

JsonString(str) == <<"\"">> \o JsonEscape(str) \o <<"\"">>

\* The JSON text of a dict of strings, with the encoder's ", " and ": ".
JsonObject(d) ==
  <<"{">> \o Join([i \in 1..Len(d) |->
                    JsonString(d[i][1]) \o <<":", " ">> \o JsonString(d[i][2])],
                  <<",", " ">>) \o <<"}">>

\* JSONEncoder().encode({'data': lld})
JSONEncode(lld) ==
  <<"{">> \o JsonString(<<"d", "a", "t", "a">>) \o <<":", " ", "[">>
    \o Join([i \in 1..Len(lld) |-> JsonObject(lld[i])], <<",", " ">>) \o <<"]", "}">>

\* discovery(data): the list built, and the text returned.
discovery(data) == [lld |-> lld_data(data), text |-> JSONEncode(lld_data(data))]

(***************************************************************************)
(* SpecDiscovery: discovery applied to every sequence of at most           *)
(* MaxRecords records of DiscoveryRecords, and to the example.             *)
(***************************************************************************)
KeyName == <<"n", "a", "m", "e">>

KeyIndex == <<"i", "n", "d", "e", "x">>

\* A key with the same macro name as KeyName.
KeyNameAlias == <<"N", "a", "m", "e", "!">>

ValEth0 == PyStr(<<"e", "t", "h", "0">>)

DiscoveryValues ==
  {PyStr(<<>>), ValEth0, PyInt(0), PyInt(1), PyNone, PyInt(10), PyStr(<<"\"">>)}

DiscoveryRecords ==
  {<<>>, << <<KeyIndex, PyInt(1)>> >>}
    \cup {<< <<KeyName, v>> >> : v \in DiscoveryValues}
    \cup {<< <<ks[1], v1>>, <<ks[2], v2>> >> :
            ks \in {<<KeyName, KeyIndex>>, <<KeyName, KeyNameAlias>>,
                    <<KeyNameAlias, KeyName>>},
            v1 \in {PyStr(<<>>), ValEth0}, v2 \in {PyInt(0), PyInt(1)}}

ExampleData ==
  << << <<KeyName, ValEth0>>, <<KeyIndex, PyInt(0)>> >>,
     << <<KeyName, PyStr(<<>>)>>, <<KeyIndex, PyInt(1)>> >> >>

DiscoveryInputs == StringsUpTo(MaxRecords, DiscoveryRecords) \cup {ExampleData}

InitDiscovery ==
  /\ Idle
  /\ \E d \in DiscoveryInputs :
       call = [fn |-> "discovery", data |-> d, done |-> FALSE,
               lld |-> <<>>, out |-> <<>>]

Discover ==
  /\ ~call.done
  /\ call' = [call EXCEPT !.done = TRUE,
                          !.lld = discovery(call.data).lld,
                          !.out = discovery(call.data).text]
  /\ UNCHANGED idleVars

NextDiscovery == Discover

SpecDiscovery == InitDiscovery /\ [][NextDiscovery]_vars

MacroNAME == <<"{", "#", "N", "A", "M", "E", "}">>

MacroINDEX == <<"{", "#", "I", "N", "D", "E", "X", "}">>

(***************************************************************************)
(* C16.  As claimed: for the example, the second record is dropped and the *)
(* data array of the result has exactly one element, {"{#NAME}":"eth0"}.   *)
(***************************************************************************)
C16_SecondRecordDropped ==
  (call.fn = "discovery" /\ call.done /\ call.data = ExampleData) =>
    call.lld = << << <<MacroNAME, <<"e", "t", "h", "0">> >> >> >>

(***************************************************************************)
(* C16, amended.  For the example, only the falsy values are dropped: the  *)
(* index 0 of the first record and the name "" of the second.  The second  *)
(* record keeps its index 1, and the result is                             *)
(* {"data": [{"{#NAME}": "eth0"}, {"{#INDEX}": "1"}]}, a data array with   *)
(* two elements.                                                           *)
(***************************************************************************)
C16_ExampleKeepsIndex ==
  (call.fn = "discovery" /\ call.done /\ call.data = ExampleData) =>
    /\ call.lld = << << <<MacroNAME, <<"e", "t", "h", "0">> >> >>,
                     << <<MacroINDEX, <<"1">> >> >> >>
    /\ call.out =
         <<"{", "\"", "d", "a", "t", "a", "\"", ":", " ", "[",
           "{", "\"", "{", "#", "N", "A", "M", "E", "}", "\"", ":", " ",
                "\"", "e", "t", "h", "0", "\"", "}", ",", " ",
           "{", "\"", "{", "#", "I", "N", "D", "E", "X", "}", "\"", ":", " ",
                "\"", "1", "\"", "}", "]", "}">>

C16_Witness ==
  /\ call.fn = "discovery"
  /\ call.done
  /\ call.data = ExampleData
  /\ Len(call.lld) = 2

\* The records of data that have a truthy value, by position.
KeptRecords(data) ==
  {i \in 1..Len(data) : \E p \in 1..Len(data[i]) : Truthy(data[i][p][2])}

\* The positions of the truthy pairs of record rec whose key normalizes to macro m.
TruthyFor(rec, m) ==
  {p \in 1..Len(rec) : Truthy(rec[p][2]) /\ macro_name(rec[p][1]) = m}

(***************************************************************************)
(* C17.  The data array has one element for each input record that has a   *)
(* truthy value, in input order.  The element maps macro_name(key) to the  *)
(* string form of the value for exactly the truthy pairs of its record,    *)
(* the last pair winning among those whose keys normalize to one macro;    *)
(* no element is empty.                                                    *)
(***************************************************************************)
C17_DiscoveryElements ==
  (call.fn = "discovery" /\ call.done) =>
    LET kept == KeptRecords(call.data)
    IN  /\ Len(call.lld) = Cardinality(kept)
        /\ \A i \in kept :
             LET el  == call.lld[Cardinality({x \in kept : x <= i})]
                 rec == call.data[i]
             IN  /\ el # <<>>
                 /\ {el[q][1] : q \in 1..Len(el)} =
                      {macro_name(rec[p][1]) : p \in {x \in 1..Len(rec) : Truthy(rec[x][2])}}
                 /\ \A q, r \in 1..Len(el) : el[q][1] = el[r][1] => q = r
                 /\ \A q \in 1..Len(el) :
                      LET ps   == TruthyFor(rec, el[q][1])
                          last == CHOOSE p \in ps : \A x \in ps : x <= p
                      IN  el[q][2] = PyToStr(rec[last][2])

C17_Witness ==
  /\ call.fn = "discovery"
  /\ call.done
  /\ call.data = << << <<KeyName, PyStr(<<>>)>>, <<KeyIndex, PyInt(0)>> >>,
                    << <<KeyName, ValEth0>>, <<KeyNameAlias, PyInt(1)>> >> >>
  /\ call.lld = << << <<MacroNAME, <<"1">> >> >> >>

(***************************************************************************)
(* AgentItem.__init__(key, flags, fn, test_param).  "not key" holds for    *)
(* None and for the empty string, "not fn" for None.  A truthy test_param  *)
(* is converted: the loop "test_param[i] = str(v)" runs through for a list *)
(* and raises TypeError at once for a tuple or a string (no item           *)
(* assignment) and for a number (not iterable); the except clause then     *)
(* stores str(test_param).  A falsy test_param is stored as it is.         *)
(***************************************************************************)
NoItem == [key |-> None, flags |-> 0, test_param |-> None, fn |-> None]

Built(item) == [kind |-> "return", exc |-> None, detail |-> <<>>, item |-> item]

Refused(exc, detail) == [kind |-> "raise", exc |-> exc, detail |-> detail, item |-> NoItem]

\* The value stored in self.test_param.
StoredTestParam(test_param) ==
  IF ~Truthy(test_param)
    THEN (IF test_param = PyNone THEN None ELSE test_param)
  ELSE IF test_param.t = "list"
    THEN PyStr(Join([i \in 1..Len(test_param.e) |-> PyToStr(test_param.e[i])], <<",">>))
  ELSE PyStr(PyToStr(test_param))

\* A constructor without the test of fn.
AgentItem_init_no_fn_test(key, flags, fn, test_param) ==
  IF key \in {None, ""}
    THEN Refused("ValueError", <<"key not given in agent item">>)
  ELSE Built([AgentItem(key, fn) EXCEPT !.flags = flags,
                                       !.test_param = StoredTestParam(test_param)])

AgentItem_init(key, flags, fn, test_param) ==
  IF key \in {None, ""}
    THEN Refused("ValueError", <<"key not given in agent item">>)
  ELSE IF fn = None
    THEN Refused("ValueError", <<"fn not given in agent item">>)
  ELSE Built([AgentItem(key, fn) EXCEPT !.flags = flags,
                                       !.test_param = StoredTestParam(test_param)])

(***************************************************************************)
(* SpecItem: construction of items from arbitrary arguments, and           *)
(* registration of the items constructed.                                  *)
(***************************************************************************)
KeyArgs == {None, "", "k1"}

FlagArgs == {0, 1}

FnArgs == {None, "f1"}

TestParams ==
  {PyNone, PyInt(0), PyInt(5), PyStr(<<"a", "b">>),
   PyList(<<>>), PyList(<<PyInt(1), PyStr(<<"a">>)>>), PyList(<<PyNone, PyInt(12)>>),
   PyTuple(<<>>), PyTuple(<<PyInt(1), PyStr(<<"a">>)>>)}

InitItem == Idle /\ call = NoCall

Construct ==
  \E key \in KeyArgs, flags \in FlagArgs, fn \in FnArgs, tp \in TestParams :
    /\ call' = [fn |-> "AgentItem", key |-> key, flags |-> flags, handler |-> fn,
                test_param |-> tp, out |-> AgentItem_init(key, flags, fn, tp)]
    /\ UNCHANGED idleVars

RegisterConstructed ==
  LET reg == register_item(Registry(items, routes, modules, streams), call.out.item)
  IN  /\ call.fn = "AgentItem"
      /\ call.out.kind = "return"
      /\ Len(items) < MaxRegistered
      /\ items' = reg.items
      /\ routes' = reg.routes
      /\ result' = OpResult("register_item", call.out.item.key, NoRequest, NoOut)
      /\ streams' = reg.streams
      /\ UNCHANGED <<modules, packages, pyfiles, initRuns, zabbix_runtime, call>>

NextItem == Construct \/ RegisterConstructed

SpecItem == InitItem /\ [][NextItem]_vars

(***************************************************************************)
(* C13.  The construction of an item fails, with the ValueError that is    *)
(* the module's configuration error, exactly when the key is None or empty *)
(* or the handler is None; otherwise it gives an item with the key, flags  *)
(* and handler given.  A failed construction gives no item and leaves the  *)
(* registry as it is, so no item without key or handler is registered.     *)
(***************************************************************************)
C13_ConstructionStep ==
  (call'.fn = "AgentItem" /\ call' # call) =>
    LET bad == call'.key \in {None, ""} \/ call'.handler = None
    IN  /\ (call'.out.kind = "raise") <=> bad
        /\ bad => (call'.out.exc = "ValueError" /\ call'.out.item = NoItem)
        /\ ~bad => /\ call'.out.kind = "return"
                   /\ call'.out.item.key = call'.key
                   /\ call'.out.item.fn = call'.handler
                   /\ call'.out.item.flags = call'.flags
        /\ items' = items /\ routes' = routes /\ modules' = modules
        /\ \A i \in 1..Len(items') :
             items'[i].key \notin {None, ""} /\ items'[i].fn # None

C13_Construction == [][C13_ConstructionStep]_vars

C13_Witness ==
  /\ call.fn = "AgentItem"
  /\ call.key = "k1"
  /\ call.handler = None
  /\ call.out.kind = "raise"
  /\ call.out.detail = <<"fn not given in agent item">>
  /\ Len(items) = 1

(***************************************************************************)
(* C14.  As claimed: for a non-empty test_param that is a list or a tuple, *)
(* the stored test_param is the string forms of its elements joined with   *)
(* ","; for any other (scalar) truthy test_param it is its string form.    *)
(***************************************************************************)
C14_SequenceJoined ==
  (call.fn = "AgentItem" /\ call.out.kind = "return" /\ Truthy(call.test_param)) =>
    call.out.item.test_param =
      IF call.test_param.t \in {"list", "tuple"}
        THEN PyStr(Join([i \in 1..Len(call.test_param.e) |->
                           PyToStr(call.test_param.e[i])], <<",">>))
        ELSE PyStr(PyToStr(call.test_param))
====
